---- MODULE Spec2Model ----
(***************************************************************************)
(* A model of pyout's row-normalization / field-rendering core:            *)
(*   RowNormalizer   (src/pyout/common.py)                                 *)
(*   StyleFields     (src/pyout/common.py)                                 *)
(*   Field, StyleProcessors (src/pyout/field.py)                           *)
(* Strings are sequences of one-character strings.  A Python dict is an    *)
(* insertion-ordered sequence of [key, value] entries.                     *)
(***************************************************************************)
EXTENDS Integers, Sequences, FiniteSets, TLC

VARIABLES
    columns,            \* the column list handed to RowNormalizer / StyleFields.build
    style,              \* column -> column style (StyleFields.style, as built)
    separator,          \* style["separator_"]
    delayed,            \* RowNormalizer.delayed: ordered [group, columns]
    delayed_columns,    \* RowNormalizer.delayed_columns
    nothings,           \* RowNormalizer.nothings: column -> placeholder
    method,             \* RowNormalizer.method, per normalizer instance
    out,                \* what the last call of each normalizer instance returned
    fields,             \* StyleFields.fields: column -> Field
    autowidth_columns,  \* StyleFields.autowidth_columns: column -> [hasmax, max]
    rendered,           \* what the last StyleFields.render call returned
    call                \* a processor call: its arguments, then its result

config == <<columns, style, separator>>
normalizer == <<delayed, delayed_columns, nothings, method, out>>
stylefields == <<fields, autowidth_columns, rendered>>
vars == <<config, normalizer, stylefields, call>>

\* ------------------------------------------------------------------ basics

None == "None"

Range(s) == {s[i] : i \in 1..Len(s)}

Max(a, b) == IF a >= b THEN a ELSE b
Min(a, b) == IF a <= b THEN a ELSE b

\* s[b:] and s[:e] of Python, for 0 <= b, e
From(s, b) == IF b >= Len(s) THEN <<>> ELSE SubSeq(s, b + 1, Len(s))
UpTo(s, e) == IF e <= 0 THEN <<>> ELSE SubSeq(s, 1, Min(e, Len(s)))

\* ------------------------------------------------------------ cell values

\* a concrete value, displayed as `text`
Val(text) == [tag |-> "val", text |-> text]

\* pyout.field.Nothing(text): the placeholder of a missing value
Nothing(text) == [tag |-> "nothing", text |-> text]

\* common.py: NOTHING = Nothing()
NOTHING == Nothing(<<>>)

\* a producer the caller supplies; `id` tells producers apart
UserFn(id) == [tag |-> "fn", body |-> [kind |-> "user", id |-> id]]

\* a Python tuple (initial, fn) given as a cell value
Tuple2(initial, fn) == [tag |-> "tuple", initial |-> initial, fn |-> fn]

\* callable(fn) or inspect.isgenerator(fn)
Callable(v) == v.tag = "fn"

\* ----------------------------------------------------- insertion-ordered dict

\* a key is a single column name or a tuple of column names
Key(column) == [multi |-> FALSE, cols |-> <<column>>]
TupleKey(cols) == [multi |-> TRUE, cols |-> cols]

DictHas(d, k) == \E i \in 1..Len(d) : d[i].key = k

DictGet(d, k) == d[CHOOSE i \in 1..Len(d) : d[i].key = k].value

\* d[k] = v
DictSet(d, k, v) ==
    IF DictHas(d, k)
    THEN [i \in 1..Len(d) |-> IF d[i].key = k THEN [key |-> k, value |-> v] ELSE d[i]]
    ELSE Append(d, [key |-> k, value |-> v])

\* del d[k]
DictDel(d, k) == SelectSeq(d, LAMBDA e : e.key # k)

DictKeys(d) == {d[i].key : i \in 1..Len(d)}

\* ------------------------------------------------- RowNormalizer.__init__

\* the group a delayed column belongs to
GroupOf(st, column) ==
    IF st[column].delayed = "True" THEN column ELSE st[column].delayed

\* self.delayed[group].append(column) on a defaultdict(list), kept as an
\* ordered sequence of [group, columns]
DefaultDictAppend(d, group, column) ==
    IF \E i \in 1..Len(d) : d[i].group = group
    THEN [i \in 1..Len(d) |->
            IF d[i].group = group
            THEN [group |-> group, columns |-> Append(d[i].columns, column)]
            ELSE d[i]]
    ELSE Append(d, [group |-> group, columns |-> <<column>>])

RECURSIVE InitLoop(_, _, _)
InitLoop(cols, st, acc) ==
    IF cols = <<>> THEN acc
    ELSE LET column == Head(cols)
             cstyle == st[column]
             isDelayed == cstyle.delayed # "absent"
             acc1 == [delayed |->
                          IF isDelayed
                          THEN DefaultDictAppend(acc.delayed, GroupOf(st, column), column)
                          ELSE acc.delayed,
                      delayed_columns |->
                          IF isDelayed
                          THEN acc.delayed_columns \cup {column}
                          ELSE acc.delayed_columns,
                      nothings |->
                          (column :> (IF cstyle.missing.has
                                      THEN Nothing(cstyle.missing.text)
                                      ELSE NOTHING)) @@ acc.nothings]
         IN InitLoop(Tail(cols), st, acc1)

\* the attributes __init__ leaves on the instance
NormalizerInit(cols, st) ==
    InitLoop(cols, st, [delayed |-> <<>>, delayed_columns |-> {}, nothings |-> <<>>])

\* ------------------------------------------------------------------ getters

Returned(v) == [ok |-> TRUE, value |-> v]
Raised(exc) == [ok |-> FALSE, exc |-> exc]

\* mutant: the default is the global placeholder
getter_dict_global_nothing(row, column) ==
    IF row.shape = "dict"
    THEN IF DictHas(row.items, Key(column))
         THEN Returned(DictGet(row.items, Key(column)))
         ELSE Returned(NOTHING)
    ELSE Raised("AttributeError")

\* row.get(column, self.nothings[column]); only a mapping has .get
getter_dict(row, column) ==
    IF row.shape = "dict"
    THEN IF DictHas(row.items, Key(column))
         THEN Returned(DictGet(row.items, Key(column)))
         ELSE Returned(nothings[column])
    ELSE Raised("AttributeError")

\* col_to_idx = {c: idx for idx, c in enumerate(self._columns)}: the last
\* position of the column
col_to_idx(column) ==
    CHOOSE i \in 1..Len(columns) :
        /\ columns[i] = column
        /\ \A j \in 1..Len(columns) : columns[j] = column => j <= i

\* mutant: the positions are counted from the wrong base
getter_seq_off_by_one(row, column) ==
    IF row.shape = "seq"
    THEN IF col_to_idx(column) + 1 <= Len(row.items)
         THEN Returned(row.items[col_to_idx(column) + 1])
         ELSE Raised("IndexError")
    ELSE IF row.shape = "dict" THEN Raised("KeyError") ELSE Raised("TypeError")

\* row[col_to_idx[column]]
getter_seq(row, column) ==
    IF row.shape = "seq"
    THEN IF col_to_idx(column) <= Len(row.items)
         THEN Returned(row.items[col_to_idx(column)])
         ELSE Raised("IndexError")
    ELSE IF row.shape = "dict" THEN Raised("KeyError") ELSE Raised("TypeError")

\* getattr(row, column, self.nothings[column]); a mapping or a sequence has
\* no attribute named like a column
getter_attrs(row, column) ==
    IF row.shape = "attrs" /\ DictHas(row.items, Key(column))
    THEN Returned(DictGet(row.items, Key(column)))
    ELSE Returned(nothings[column])

Getter(getter, row, column) ==
    CASE getter = "getter_dict" -> getter_dict(row, column)
      [] getter = "getter_seq" -> getter_seq(row, column)
      [] getter = "getter_attrs" -> getter_attrs(row, column)

\* ------------------------------------------------------------ _choose_normalizer

_choose_normalizer(row) ==
    IF row.shape = "dict" THEN "getter_dict"
    ELSE IF row.shape = "seq" THEN "getter_seq"
    ELSE "getter_attrs"

\* ------------------------------------------------------------ strip_callables

RECURSIVE StripScan(_, _)
\* the loop over row.items(): collects callables, to_add and to_delete
StripScan(items, acc) ==
    IF items = <<>> THEN acc
    ELSE LET cols0 == Head(items).key
             value == Head(items).value
             initial == IF value.tag = "tuple" THEN value.initial ELSE NOTHING
             fn == IF value.tag = "tuple" THEN value.fn ELSE value
             cols == cols0.cols
             acc1 ==
                 IF Callable(fn)
                 THEN [callables |-> Append(acc.callables, [columns |-> cols, fn |-> fn]),
                       to_delete |-> IF cols0.multi
                                     THEN Append(acc.to_delete, cols0)
                                     ELSE acc.to_delete,
                       to_add |-> acc.to_add \o
                                  [i \in 1..Len(cols) |-> [column |-> cols[i], value |-> initial]]]
                 ELSE acc
         IN StripScan(Tail(items), acc1)

RECURSIVE ApplyAdd_own_placeholder(_, _)
\* mutant: a producer without an initial value leaves the column's own
\* placeholder
ApplyAdd_own_placeholder(row, to_add) ==
    IF to_add = <<>> THEN row
    ELSE LET column == Head(to_add).column
             value == IF Head(to_add).value = NOTHING THEN nothings[column]
                      ELSE Head(to_add).value
         IN ApplyAdd_own_placeholder(DictSet(row, Key(column), value), Tail(to_add))

RECURSIVE ApplyAdd(_, _)
ApplyAdd(row, to_add) ==
    IF to_add = <<>> THEN row
    ELSE ApplyAdd(DictSet(row, Key(Head(to_add).column), Head(to_add).value), Tail(to_add))

RECURSIVE ApplyDelete(_, _)
ApplyDelete(row, to_delete) ==
    IF to_delete = <<>> THEN row
    ELSE ApplyDelete(DictDel(row, Head(to_delete)), Tail(to_delete))

\* returns the callables and the row as the call leaves it
strip_callables(row) ==
    LET s == StripScan(row, [callables |-> <<>>, to_delete |-> <<>>, to_add |-> <<>>])
    IN [callables |-> s.callables,
        row |-> ApplyDelete(ApplyAdd(row, s.to_add), s.to_delete)]

\* --------------------------------------------------------------- _maybe_delay

\* mutant: the producer covers the first column of the group only
delay_first_column(getter, row, cols) ==
    [value |-> [tag |-> "fn",
                body |-> [kind |-> "delay", getter |-> getter, row |-> row,
                          cols |-> <<cols[1]>>]],
     invoked |-> <<>>]

\* mutant: the producer is called where it is built
delay_eager(getter, row, cols) ==
    [value |-> [tag |-> "mapping", cols |-> cols],
     invoked |-> <<[kind |-> "delay", getter |-> getter, row |-> row, cols |-> cols]>>]

\* delay(cols): the lambda is built, not called
delay(getter, row, cols) ==
    [value |-> [tag |-> "fn",
                body |-> [kind |-> "delay", getter |-> getter, row |-> row, cols |-> cols]],
     invoked |-> <<>>]

RECURSIVE FetchLoop(_, _, _, _)
\* for column in columns: if column not in self.delayed_columns: ...
FetchLoop(getter, row, cols, row_norm) ==
    IF cols = <<>> THEN [ok |-> TRUE, row |-> row_norm]
    ELSE IF Head(cols) \in delayed_columns
         THEN FetchLoop(getter, row, Tail(cols), row_norm)
         ELSE LET g == Getter(getter, row, Head(cols))
              IN IF g.ok
                 THEN FetchLoop(getter, row, Tail(cols),
                                DictSet(row_norm, Key(Head(cols)), g.value))
                 ELSE [ok |-> FALSE, exc |-> g.exc]

RECURSIVE DelayLoop(_, _, _, _, _)
\* for columns in self.delayed.values(): ...
DelayLoop(getter, row, groups, row_norm, invoked) ==
    IF groups = <<>> THEN [row |-> row_norm, invoked |-> invoked]
    ELSE LET cols == Head(groups).columns
             key == IF Len(cols) = 1 THEN Key(cols[1]) ELSE TupleKey(cols)
             d == delay(getter, row, cols)
         IN DelayLoop(getter, row, Tail(groups),
                      DictSet(row_norm, key, d.value), invoked \o d.invoked)

_maybe_delay(getter, row, cols) ==
    LET f == FetchLoop(getter, row, cols, <<>>)
    IN IF ~f.ok THEN [ok |-> FALSE, exc |-> f.exc, invoked |-> <<>>]
       ELSE LET d == DelayLoop(getter, row, delayed, f.row, <<>>)
            IN [ok |-> TRUE, row |-> d.row, invoked |-> d.invoked]

\* ----------------------------------------------------------------- _normalize

_normalize(getter, row) ==
    LET s0 == IF row.shape = "dict"
              THEN strip_callables(row.items)
              ELSE [callables |-> <<>>, row |-> row.items]
        row1 == [row EXCEPT !.items = s0.row]
        md == _maybe_delay(getter, row1, columns)
    IN IF ~md.ok
       THEN [status |-> "raised", exc |-> md.exc, callables |-> <<>>, row |-> <<>>,
             row_in |-> row1, arg |-> row, invoked |-> md.invoked]
       ELSE LET s1 == strip_callables(md.row)
            IN [status |-> "ok", exc |-> None,
                callables |-> s0.callables \o s1.callables, row |-> s1.row,
                row_in |-> row1, arg |-> row, invoked |-> md.invoked]

\* calling a producer the normalizer synthesized:
\* {c: getter(row, c) for c in cols}
RECURSIVE InvokeLoop(_, _, _, _)
InvokeLoop(getter, row, cols, acc) ==
    IF cols = <<>> THEN [ok |-> TRUE, value |-> acc]
    ELSE LET g == Getter(getter, row, Head(cols))
         IN IF g.ok
            THEN InvokeLoop(getter, row, Tail(cols), DictSet(acc, Key(Head(cols)), g.value))
            ELSE [ok |-> FALSE, exc |-> g.exc]

Invoke(fn) == InvokeLoop(fn.body.getter, fn.body.row, fn.body.cols, <<>>)

\* ------------------------------------------------------------------- inputs

ColumnLists == {<<"name">>, <<"name", "status">>, <<"name", "status", "path">>}

\* the text of style.missing
MissingText == <<"-">>

\* a style's width: an integer, or "auto" / {auto: True, min, max, marker}
MarkerTrue == [kind |-> "True", text |-> <<>>]
MarkerFalse == [kind |-> "False", text |-> <<>>]
MarkerStr(text) == [kind |-> "str", text |-> text]

FixedWidth(n) ==
    [auto |-> FALSE, fixed |-> n, min |-> 0, hasmax |-> FALSE, max |-> 0, marker |-> MarkerTrue]
AutoWidth(min, hasmax, max, marker) ==
    [auto |-> TRUE, fixed |-> 0, min |-> min, hasmax |-> hasmax, max |-> max, marker |-> marker]

DefaultWidth == AutoWidth(0, FALSE, 0, MarkerTrue)

\* a style attribute (bold, underline, color) that the style does not set
NoAttr == [has |-> FALSE]
\* a simple value: "True" / "False" for bold and underline, a name for color
Simple(value) == [has |-> TRUE, vtype |-> "simple", value |-> value]
\* {"label": mapping}, the mapping an ordered sequence of [value, style]
Label(mapping) == [has |-> TRUE, vtype |-> "label", mapping |-> mapping]
\* {"interval": intervals}
Interval(intervals) == [has |-> TRUE, vtype |-> "interval", intervals |-> intervals]

NoMissing == [has |-> FALSE, text |-> <<>>]

\* the columns whose style sets missing: none, the first one, or all
MissingPatterns(cols) ==
    {[c \in Range(cols) |-> FALSE],
     [c \in Range(cols) |-> c = cols[1]],
     [c \in Range(cols) |-> TRUE]}

\* every choice of delayed per column, with each pattern of missing
NormalizerStyles(cols) ==
    {[c \in Range(cols) |->
        [width |-> DefaultWidth, align |-> "left",
         bold |-> NoAttr, underline |-> NoAttr, color |-> NoAttr,
         delayed |-> d[c],
         missing |-> IF m[c] THEN [has |-> TRUE, text |-> MissingText] ELSE NoMissing]] :
        d \in [Range(cols) -> {"absent", "True", "g1"}],
        m \in MissingPatterns(cols)}

\* the concrete text a row carries for a column (one per column, all distinct)
TextOf(column) ==
    CASE column = "name" -> <<"a">>
      [] column = "status" -> <<"a", "b">>
      [] column = "path" -> <<"a", "b", "c">>

\* a mapping cell: absent, concrete, a bare producer, or (initial, producer)
MappingCell(column, kind) ==
    CASE kind = "val" -> Val(TextOf(column))
      [] kind = "fn" -> UserFn(column)
      [] kind = "tuple" -> Tuple2(Val(<<"i">>), UserFn(column))

\* the entries of the columns whose kind is not "absent", in column order
RECURSIVE EntriesOf(_, _)
EntriesOf(cols, k) ==
    IF cols = <<>> THEN <<>>
    ELSE (IF k[Head(cols)] = "absent" THEN <<>>
          ELSE <<[key |-> Key(Head(cols)), value |-> MappingCell(Head(cols), k[Head(cols)])]>>)
         \o EntriesOf(Tail(cols), k)

MappingRows(cols) ==
    {[shape |-> "dict", items |-> EntriesOf(cols, k)] :
        k \in [Range(cols) -> {"absent", "val", "fn", "tuple"}]}

SeqRows(cols) ==
    {[shape |-> "seq", items |-> [i \in 1..n |-> Val(TextOf(cols[i]))]] : n \in 0..Len(cols)}

AttrRows(cols) ==
    {[shape |-> "attrs", items |-> EntriesOf(cols, k)] :
        k \in [Range(cols) -> {"absent", "val"}]}

Rows(cols) == MappingRows(cols) \cup SeqRows(cols) \cup AttrRows(cols)

\* the row of shape `shape` that carries the text f[c] for every column c
AsShape(shape, cols, f) ==
    IF shape = "seq"
    THEN [shape |-> "seq", items |-> [i \in 1..Len(cols) |-> Val(f[cols[i]])]]
    ELSE [shape |-> shape,
          items |-> [i \in 1..Len(cols) |-> [key |-> Key(cols[i]), value |-> Val(f[cols[i]])]]]

\* --------------------------------------------------------- StyleProcessors

\* the output-specific text of a style key: one token named after the key
translate(name) == <<name>>

IsSpace(ch) == ch = " "

\* s.strip() is not empty
StripNonEmpty(s) == \E i \in 1..Len(s) : ~IsSpace(s[i])

DefaultMarker == <<".", ".", ".">>

\* truncate(length, marker): the processor it returns; marker True is "...",
\* marker False (like "") is the empty, falsy marker
truncate(length, marker) ==
    [proc |-> "truncate", length |-> length,
     marker |-> IF marker.kind = "True" THEN DefaultMarker
                ELSE IF marker.kind = "False" THEN <<>> ELSE marker.text]

\* mutant: no special case for a length shorter than the marker
truncate_fn_long_marker(p, value, result) ==
    LET marker_beg == Max(p.length - Len(p.marker), 0)
    IN IF Len(result) <= p.length THEN result
       ELSE IF p.marker # <<>> /\ StripNonEmpty(From(result, marker_beg))
            THEN UpTo(result, marker_beg) \o p.marker
            ELSE UpTo(result, p.length)

\* mutant: only the characters under the marker decide whether it is put
truncate_fn_window(p, value, result) ==
    LET marker_beg == Max(p.length - Len(p.marker), 0)
    IN IF Len(result) <= p.length THEN result
       ELSE IF p.marker # <<>> /\ StripNonEmpty(SubSeq(result, marker_beg + 1, p.length))
            THEN IF marker_beg = 0
                 THEN UpTo(p.marker, p.length)
                 ELSE UpTo(result, marker_beg) \o p.marker
            ELSE UpTo(result, p.length)

truncate_fn(p, value, result) ==
    LET marker_beg == Max(p.length - Len(p.marker), 0)
    IN IF Len(result) <= p.length THEN result
       ELSE IF p.marker # <<>> /\ StripNonEmpty(From(result, marker_beg))
            THEN IF marker_beg = 0
                 THEN UpTo(p.marker, p.length)
                 ELSE UpTo(result, marker_beg) \o p.marker
            ELSE UpTo(result, p.length)

by_key(key) == [proc |-> "by_key", key |-> key]

by_key_fn(p, value, result) == translate(p.key) \o result

\* Python's truth value of a style value
Truthy(v) == v \notin {"False", "", None}

by_lookup(mapping, key) == [proc |-> "by_lookup", mapping |-> mapping, key |-> key]

by_lookup_fn(p, value, result) ==
    LET hits == {i \in 1..Len(p.mapping) :
                    value.tag = "val" /\ p.mapping[i].value = value.text}
    IN IF hits = {} THEN result
       ELSE LET lookup_value == p.mapping[CHOOSE i \in hits : TRUE].style
            IN IF ~Truthy(lookup_value) THEN result
               ELSE translate(IF p.key # None THEN p.key ELSE lookup_value) \o result

\* an interval bound: None or a number
NoBound == [none |-> TRUE, n |-> 0]
Bound(n) == [none |-> FALSE, n |-> n]

DigitValue(ch) ==
    CASE ch = "0" -> 0 [] ch = "1" -> 1 [] ch = "2" -> 2 [] ch = "3" -> 3 [] ch = "4" -> 4
      [] ch = "5" -> 5 [] ch = "6" -> 6 [] ch = "7" -> 7 [] ch = "8" -> 8 [] ch = "9" -> 9

IsDigit(ch) == ch \in {"0", "1", "2", "3", "4", "5", "6", "7", "8", "9"}

RECURSIVE NumOf(_)
NumOf(text) ==
    IF Len(text) = 1 THEN DigitValue(text[1])
    ELSE 10 * NumOf(UpTo(text, Len(text) - 1)) + DigitValue(text[Len(text)])

\* float(value)
Float(value) ==
    IF value.tag = "val" /\ value.text # <<>> /\ \A i \in 1..Len(value.text) : IsDigit(value.text[i])
    THEN Returned(NumOf(value.text))
    ELSE Raised("ValueError")

by_interval_lookup(intervals, key) ==
    [proc |-> "by_interval_lookup", intervals |-> intervals, key |-> key]

RECURSIVE IntervalScan(_, _, _, _, _)
\* the loop over intervals; v is float(value).  After
\*   if start is None: start = -inf  elif end is None: end = inf
\* an entry with both bounds None keeps end = None, and `value < None` is a
\* TypeError on Python 3 and False on Python 2
IntervalScan(py, intervals, key, v, result) ==
    IF intervals = <<>> THEN Returned(result)
    ELSE LET start == Head(intervals).start
             end == Head(intervals).end
             lookup_value == Head(intervals).style
             lower == start.none \/ start.n <= v
         IN IF ~lower THEN IntervalScan(py, Tail(intervals), key, v, result)
            ELSE IF start.none /\ end.none
            THEN IF py = "py3" THEN Raised("TypeError")
                 ELSE IntervalScan(py, Tail(intervals), key, v, result)
            ELSE IF end.none \/ v < end.n
            THEN IF ~Truthy(lookup_value) THEN Returned(result)
                 ELSE Returned(translate(IF key # None THEN key ELSE lookup_value) \o result)
            ELSE IntervalScan(py, Tail(intervals), key, v, result)

by_interval_lookup_fn(py, p, value, result) ==
    LET f == Float(value)
    IN IF ~f.ok THEN f ELSE IntervalScan(py, p.intervals, p.key, f.value, result)

style_keys ==
    <<[key |-> "bold", type |-> "bool"],
      [key |-> "underline", type |-> "bool"],
      [key |-> "color", type |-> "str"]>>

RECURSIVE FromStyleLoop(_, _)
FromStyleLoop(keys, column_style) ==
    IF keys = <<>> THEN <<>>
    ELSE LET key == Head(keys).key
             key_type == Head(keys).type
             v == column_style[key]
             attr_key == IF key_type = "bool" THEN key ELSE None
             yielded ==
                 IF ~v.has THEN <<>>
                 ELSE IF v.vtype = "simple"
                 THEN IF key_type = "bool"
                      THEN IF v.value = "True" THEN <<by_key(key)>> ELSE <<>>
                      ELSE <<by_key(v.value)>>
                 ELSE IF v.vtype = "label" THEN <<by_lookup(v.mapping, attr_key)>>
                 ELSE <<by_interval_lookup(v.intervals, attr_key)>>
         IN yielded \o FromStyleLoop(Tail(keys), column_style)

from_style(column_style) == FromStyleLoop(style_keys, column_style)

\* the post-format processors of a column style
post_from_style(column_style) == from_style(column_style)

\* the pre-format processors of a column style: the style record has no
\* attribute that yields one
pre_from_style(column_style) == <<>>

\* -------------------------------------------------------------------- Field

_align_values(align) ==
    CASE align = "left" -> "<" [] align = "right" -> ">" [] align = "center" -> "^"

\* "{:" + align + str(width) + "}"
_build_format(width, align) == [align |-> _align_values(align), width |-> width]

Spaces(n) == [i \in 1..n |-> " "]

\* str(value)
Str(value) == value.text

\* self._fmt.format(value): pads to the width, never cuts
Format(fmt, value) ==
    LET text == Str(value)
        pad == fmt.width - Len(text)
    IN IF pad <= 0 THEN text
       ELSE CASE fmt.align = "<" -> text \o Spaces(pad)
              [] fmt.align = ">" -> Spaces(pad) \o text
              [] fmt.align = "^" -> Spaces(pad \div 2) \o text \o Spaces(pad - pad \div 2)

\* Field(width, align) with no processor yet
NewField(width, align) ==
    [width |-> width, align |-> align,
     pre |-> [default |-> <<>>, override |-> <<>>],
     processors |-> [core |-> <<>>, default |-> <<>>, override |-> <<>>]]

\* field.add(kind, key, *procs): the list under `key` is replaced
FieldAdd(field, kind, key, procs) ==
    IF kind = "pre"
    THEN [field EXCEPT !.pre[key] = procs]
    ELSE [field EXCEPT !.processors[key] = procs]

ApplyProc(p, value, result) ==
    CASE p.proc = "truncate" -> Returned(truncate_fn(p, value, result))
      [] p.proc = "by_key" -> Returned(by_key_fn(p, value, result))
      [] p.proc = "by_lookup" -> Returned(by_lookup_fn(p, value, result))
      [] p.proc = "by_interval_lookup" -> by_interval_lookup_fn("py3", p, value, result)

RECURSIVE RunProcs(_, _, _)
\* for fn in ...: result = fn(value, result)
RunProcs(procs, value, result) ==
    IF procs = <<>> THEN Returned(result)
    ELSE LET r == ApplyProc(Head(procs), value, result)
         IN IF r.ok THEN RunProcs(Tail(procs), value, r.value) ELSE r

\* mutant: the selected group runs before "core"
FieldCall_group_first(field, value, which) ==
    RunProcs(field.processors[which] \o field.processors.core, value,
             Format(_build_format(field.width, field.align), value))

\* Field.__call__(value, which): format, then "core" and `which`
FieldCall(field, value, which) ==
    RunProcs(field.processors.core \o field.processors[which], value,
             Format(_build_format(field.width, field.align), value))

\* field(value, keys=[group], exclude_post=True): the value after the
\* pre-format processors of `group`
FieldCallExcludePost(field, value, group) == value

\* -------------------------------------------------------------- StyleFields

RECURSIVE SetupLoop(_, _, _)
\* for column in self.columns: ... self.fields[column] = field
SetupLoop(cols, st, acc) ==
    IF cols = <<>> THEN acc
    ELSE LET column == Head(cols)
             cstyle == st[column]
             style_width == cstyle.width
             is_auto == style_width.auto
             width == IF is_auto THEN style_width.min ELSE style_width.fixed
             core_procs ==
                 IF is_auto
                 THEN IF style_width.hasmax
                      THEN <<truncate(style_width.max, style_width.marker)>>
                      ELSE <<>>
                 ELSE <<truncate(width, MarkerTrue)>>
             field ==
                 FieldAdd(
                     FieldAdd(
                         FieldAdd(NewField(width, cstyle.align),
                                  "pre", "default", pre_from_style(cstyle)),
                         "post", "core", core_procs),
                     "post", "default", post_from_style(cstyle))
         IN SetupLoop(Tail(cols), st,
                [fields |-> (column :> field) @@ acc.fields,
                 autowidth_columns |->
                     IF is_auto
                     THEN (column :> [hasmax |-> style_width.hasmax, max |-> style_width.max])
                          @@ acc.autowidth_columns
                     ELSE acc.autowidth_columns])

\* the fields and autowidth_columns that build(columns) leaves
_setup_fields(cols, st) ==
    SetupLoop(cols, st, [fields |-> <<>>, autowidth_columns |-> <<>>])

\* mutant: the width follows the last value
WidthUpdate_assign(width, wmax, value_width) ==
    [width |-> value_width,
     adjusted |-> value_width > width /\ (~wmax.hasmax \/ width < wmax.max)]

\* the body of the column loop of _set_widths once value_width is known:
\*   if value_width > field.width:
\*       if wmax is None or field.width < wmax: adjusted = True
\*       field.width = value_width
WidthUpdate(width, wmax, value_width) ==
    IF value_width > width
    THEN [width |-> value_width, adjusted |-> ~wmax.hasmax \/ width < wmax.max]
    ELSE [width |-> width, adjusted |-> FALSE]

RECURSIVE SetWidthsLoop(_, _, _, _, _, _)
SetWidthsLoop(cols, flds, auto, row, proc_group, adjusted) ==
    IF cols = <<>> THEN [fields |-> flds, adjusted |-> adjusted]
    ELSE LET column == Head(cols)
         IN IF column \notin DOMAIN auto
            THEN SetWidthsLoop(Tail(cols), flds, auto, row, proc_group, adjusted)
            ELSE LET field == flds[column]
                     cell == DictGet(row, Key(column))
                     value == IF field.pre[proc_group] # <<>>
                              THEN FieldCallExcludePost(field, cell, proc_group)
                              ELSE cell
                     value_width == Len(Str(value))
                     u == WidthUpdate(field.width, auto[column], value_width)
                 IN SetWidthsLoop(Tail(cols),
                                  [flds EXCEPT ![column].width = u.width],
                                  auto, row, proc_group, adjusted \/ u.adjusted)

_set_widths(cols, flds, auto, row, proc_group) ==
    SetWidthsLoop(cols, flds, auto, row, proc_group, FALSE)

\* no style argument
NoStyle == [has |-> FALSE]
\* a style argument, as elements.adopt(self.style, style) completes it
StyleArg(st) == [has |-> TRUE, style |-> st]

\* mutant: the processors of the style argument are set under "default"
_proc_group_sets_default(cols, flds, arg) ==
    IF arg.has
    THEN [group |-> "override",
          fields |-> [c \in DOMAIN flds |->
                         FieldAdd(FieldAdd(FieldAdd(flds[c], "pre", "override",
                                                    pre_from_style(arg.style[c])),
                                           "post", "override", post_from_style(arg.style[c])),
                                  "post", "default", post_from_style(arg.style[c]))]]
    ELSE [group |-> "default", fields |-> flds]

\* the group, and the fields with the "override" processors set
_proc_group(cols, flds, arg) ==
    IF arg.has
    THEN [group |-> "override",
          fields |-> [c \in DOMAIN flds |->
                         FieldAdd(FieldAdd(flds[c], "pre", "override",
                                           pre_from_style(arg.style[c])),
                                  "post", "override", post_from_style(arg.style[c]))]]
    ELSE [group |-> "default", fields |-> flds]

RECURSIVE Join(_, _)
\* sep.join(parts)
Join(sep, parts) ==
    IF parts = <<>> THEN <<>>
    ELSE IF Len(parts) = 1 THEN parts[1]
    ELSE parts[1] \o sep \o Join(sep, Tail(parts))

\* StyleFields.render(row, style): the line, the flag and the fields it leaves
render(cols, flds, auto, sep, row, arg) ==
    LET g == _proc_group(cols, flds, arg)
        \* proc_keys = ["core", "override"], or None for ["core", "default"]
        which == IF g.group = "override" THEN "override" ELSE "default"
        w == _set_widths(cols, g.fields, auto, row, g.group)
        proc_fields == [i \in 1..Len(cols) |->
                           FieldCall(w.fields[cols[i]], DictGet(row, Key(cols[i])), which)]
    IN IF \E i \in 1..Len(cols) : ~proc_fields[i].ok
       THEN [status |-> "raised", line |-> <<>>, cells |-> <<>>, adjusted |-> w.adjusted,
             group |-> g.group, fields |-> w.fields]
       ELSE LET cells == [i \in 1..Len(cols) |-> proc_fields[i].value]
            IN [status |-> "ok", line |-> Join(sep, cells) \o <<"\n">>, cells |-> cells,
                adjusted |-> w.adjusted, group |-> g.group, fields |-> w.fields]

Widths(flds) == [c \in DOMAIN flds |-> flds[c].width]

\* ------------------------------------------------------------ render inputs

\* the longest text of a rendered cell
MaxLen == 3

Letters == <<"a", "b", "c", "d", "e", "f", "g", "h">>

\* the first n letters
Prefix(n) == [i \in 1..n |-> Letters[((i - 1) % Len(Letters)) + 1]]

RenderCells == {Val(Prefix(n)) : n \in 0..MaxLen}

ColStyle(width, align, bold, color) ==
    [width |-> width, align |-> align, bold |-> bold, underline |-> NoAttr,
     color |-> color, delayed |-> "absent", missing |-> NoMissing]

LabelMapping ==
    <<[value |-> Prefix(1), style |-> "red"],
      [value |-> Prefix(2), style |-> "False"]>>

ColStyles ==
    {ColStyle(FixedWidth(3), "center", NoAttr, NoAttr),
     ColStyle(FixedWidth(2), "right", NoAttr, NoAttr),
     ColStyle(DefaultWidth, "left", NoAttr, Label(LabelMapping)),
     ColStyle(AutoWidth(2, FALSE, 0, MarkerTrue), "center", Simple("True"), NoAttr),
     ColStyle(AutoWidth(0, TRUE, 2, MarkerTrue), "left", NoAttr, NoAttr),
     ColStyle(AutoWidth(1, TRUE, 3, MarkerFalse), "right", NoAttr, NoAttr),
     ColStyle(AutoWidth(0, TRUE, 2, MarkerTrue), "right", Simple("True"), Label(LabelMapping))}

RenderColumnLists == {<<"name">>, <<"name", "status">>}

RenderRows(cols) ==
    {[i \in 1..Len(cols) |-> [key |-> Key(cols[i]), value |-> v[cols[i]]]] :
        v \in [Range(cols) -> RenderCells]}

\* the style arguments of a render call: none, a color for the first
\* column, another alignment for every column
StyleArgs(cols, st) ==
    {NoStyle,
     StyleArg([c \in Range(cols) |->
                  IF c = cols[1] THEN [st[c] EXCEPT !.color = Simple("green")] ELSE st[c]]),
     StyleArg([c \in Range(cols) |-> [st[c] EXCEPT !.align = "right"]])}

\* ------------------------------------------------------------------ actions

Normalizers == {1, 2, 3}

NoCall == [status |-> "none"]

\* mutant: every call chooses the getter anew
Normalize_rebind(n, row) ==
    /\ out[n] = NoCall
    /\ method' = [method EXCEPT ![n] = _choose_normalizer(row)]
    /\ out' = [out EXCEPT ![n] = _normalize(method'[n], row)]
    /\ UNCHANGED <<config, delayed, delayed_columns, nothings, stylefields, call>>

\* RowNormalizer.__call__ of instance n
Normalize(n, row) ==
    /\ out[n] = NoCall
    /\ method' = [method EXCEPT ![n] = IF @ = None THEN _choose_normalizer(row) ELSE @]
    /\ out' = [out EXCEPT ![n] = _normalize(method'[n], row)]
    /\ UNCHANGED <<config, delayed, delayed_columns, nothings, stylefields, call>>

\* the caller takes what instance n returned (or catches what it raised)
Collect(n) ==
    /\ out[n] # NoCall
    /\ out' = [out EXCEPT ![n] = NoCall]
    /\ UNCHANGED <<config, delayed, delayed_columns, nothings, method, stylefields, call>>

\* StyleFields.render(row, style)
Render(row, arg) ==
    /\ rendered = NoCall
    /\ LET r == render(columns, fields, autowidth_columns, separator, row, arg)
       IN /\ fields' = r.fields
          /\ rendered' = [status |-> r.status, line |-> r.line, cells |-> r.cells,
                          adjusted |-> r.adjusted, group |-> r.group,
                          row |-> row, arg |-> arg, before |-> Widths(fields)]
    /\ UNCHANGED <<config, normalizer, autowidth_columns, call>>

\* the caller writes the line it got
Write ==
    /\ rendered # NoCall
    /\ rendered' = NoCall
    /\ UNCHANGED <<config, normalizer, fields, autowidth_columns, call>>

\* ------------------------------------------------------------ specifications

IdleNormalizer ==
    /\ delayed = <<>>
    /\ delayed_columns = {}
    /\ nothings = <<>>
    /\ method = [n \in Normalizers |-> None]
    /\ out = [n \in Normalizers |-> NoCall]

IdleFields ==
    /\ fields = <<>>
    /\ autowidth_columns = <<>>
    /\ rendered = NoCall

\* RowNormalizer(columns, style) constructed, for every instance
InitNormalizers ==
    /\ columns \in ColumnLists
    /\ style \in NormalizerStyles(columns)
    /\ separator = <<" ">>
    /\ delayed = NormalizerInit(columns, style).delayed
    /\ delayed_columns = NormalizerInit(columns, style).delayed_columns
    /\ nothings = NormalizerInit(columns, style).nothings
    /\ method = [n \in Normalizers |-> None]
    /\ out = [n \in Normalizers |-> NoCall]
    /\ IdleFields
    /\ call = NoCall

\* one normalizer, fed any sequence of rows of any shape
Init == InitNormalizers

Next ==
    \/ \E row \in Rows(columns) : Normalize(1, row)
    \/ Collect(1)

Spec == Init /\ [][Next]_vars

\* StyleFields(style, procgen).build(columns) done
InitRender ==
    /\ columns \in RenderColumnLists
    /\ style \in [Range(columns) -> ColStyles]
    /\ separator = <<" ">>
    /\ fields = _setup_fields(columns, style).fields
    /\ autowidth_columns = _setup_fields(columns, style).autowidth_columns
    /\ rendered = NoCall
    /\ IdleNormalizer
    /\ call = NoCall

NextRender ==
    \/ \E row \in RenderRows(columns), arg \in StyleArgs(columns, style) : Render(row, arg)
    \/ Write

SpecRender == InitRender /\ [][NextRender]_vars

\* three fresh normalizers, one per row shape, each fed once, all with rows
\* that carry the same text for every column
ShapeOf(n) == CASE n = 1 -> "dict" [] n = 2 -> "seq" [] n = 3 -> "attrs"

Texts == {Prefix(1), Prefix(2)}

\* the text a complete, concrete row carries for every column
Carried(row) ==
    [c \in Range(columns) |->
        IF row.shape = "seq"
        THEN row.items[col_to_idx(c)].text
        ELSE DictGet(row.items, Key(c)).text]

NormalizeShape(n, f) ==
    /\ \A m \in Normalizers : out[m] # NoCall => Carried(out[m].arg) = f
    /\ Normalize(n, AsShape(ShapeOf(n), columns, f))

NextShapes == \E n \in Normalizers, f \in [Range(columns) -> Texts] : NormalizeShape(n, f)

SpecShapes == InitNormalizers /\ [][NextShapes]_vars

\* StyleProcessors.truncate(length, marker)(_, result), for every argument
MaxStr == 5

Chars == {"a", "b", " "}

Strings == UNION {[1..n -> Chars] : n \in 0..MaxStr}

Markers == {MarkerTrue, MarkerFalse, MarkerStr(<<"~">>), MarkerStr(<<"~", "~", "~", "~">>)}

InitTruncate ==
    /\ call \in {[proc |-> "truncate", status |-> "pending", length |-> l, marker |-> m,
                  arg |-> s, result |-> <<>>] :
                    l \in 0..MaxStr, m \in Markers, s \in Strings}
    /\ columns = <<>> /\ style = <<>> /\ separator = <<" ">>
    /\ IdleNormalizer
    /\ IdleFields

\* fn = truncate(length, marker); fn(None, result)
CallTruncate ==
    /\ call.status = "pending"
    /\ call.proc = "truncate"
    /\ call' = [call EXCEPT !.status = "done",
                            !.result = truncate_fn(truncate(call.length, call.marker),
                                                   None, call.arg)]
    /\ UNCHANGED <<config, normalizer, stylefields>>

SpecTruncate == InitTruncate /\ [][CallTruncate]_vars

\* StyleProcessors.by_interval_lookup(intervals, key)(value, result)
MaxIntervals == 2

IntervalEntries ==
    [start : {NoBound, Bound(0), Bound(2)},
     end : {NoBound, Bound(2), Bound(4)},
     style : {"red", "green", None}]

IntervalLists == UNION {[1..n -> IntervalEntries] : n \in 0..MaxIntervals}

NumberCells == {Val(<<d>>) : d \in {"0", "1", "2", "3", "4", "5"}}

InitInterval ==
    /\ call \in {[proc |-> "by_interval_lookup", status |-> "pending", py |-> py,
                  intervals |-> iv, key |-> k, value |-> v, arg |-> v.text,
                  result |-> Returned(<<>>)] :
                    py \in {"py2", "py3"}, iv \in IntervalLists,
                    k \in {None, "bold"}, v \in NumberCells}
    /\ columns = <<>> /\ style = <<>> /\ separator = <<" ">>
    /\ IdleNormalizer
    /\ IdleFields

\* fn = by_interval_lookup(intervals, key); fn(value, result)
CallInterval ==
    /\ call.status = "pending"
    /\ call.proc = "by_interval_lookup"
    /\ call' = [call EXCEPT !.status = "done",
                            !.result = by_interval_lookup_fn(
                                           call.py,
                                           by_interval_lookup(call.intervals, call.key),
                                           call.value, call.arg)]
    /\ UNCHANGED <<config, normalizer, stylefields>>

SpecInterval == InitInterval /\ [][CallInterval]_vars

\* ------------------------------------------------------------------ claims

\* two dicts with the same items
DictEq(d1, d2) == Len(d1) = Len(d2) /\ Range(d1) = Range(d2)

\* the column tuples of a returned producer list
ProducerColumns(o) == [i \in 1..Len(o.callables) |-> o.callables[i].columns]

\* the text StyleFields.render gives for a canonical row, on freshly built fields
RenderText(row) ==
    LET b == _setup_fields(columns, style)
    IN render(columns, b.fields, b.autowidth_columns, separator, row, NoStyle).line

\* C1: three fresh normalizers fed a mapping, a sequence and an attribute
\* object that carry the same concrete values return the same canonical row
\* and the same producer column tuples, and render gives the same text for
\* the three canonical rows, delayed columns or not.
C1_ShapesAgree ==
    \A n \in Normalizers, m \in Normalizers :
        (out[n] # NoCall /\ out[m] # NoCall) =>
            /\ out[n].status = "ok"
            /\ out[m].status = "ok"
            /\ DictEq(out[n].row, out[m].row)
            /\ ProducerColumns(out[n]) = ProducerColumns(out[m])
            /\ RenderText(out[n].row) = RenderText(out[m].row)

\* the three shapes have been normalized, with delayed and plain columns
C1_Witness ==
    /\ \A n \in Normalizers : out[n] # NoCall /\ out[n].status = "ok"
    /\ {out[n].arg.shape : n \in Normalizers} = {"dict", "seq", "attrs"}
    /\ Len(columns) = 3
    /\ delayed # <<>>
    /\ \E c \in Range(columns) : c \notin delayed_columns

\* the last call of the normalizer under test, made on a row of the shape
\* the getter was bound for
Called == out[1] # NoCall
Matches == Called /\ _choose_normalizer(out[1].arg) = method[1]

\* the cell a row holds for a column, or the column's placeholder
CellOf(row, c) ==
    IF row.shape = "seq"
    THEN row.items[col_to_idx(c)]
    ELSE IF \E i \in 1..Len(row.items) : row.items[i].key = Key(c)
         THEN row.items[CHOOSE i \in 1..Len(row.items) : row.items[i].key = Key(c)].value
         ELSE nothings[c]

\* a sequence row too short for column c
TooShort(row, c) == row.shape = "seq" /\ col_to_idx(c) > Len(row.items)

\* the returned pairs whose columns are exactly cols
PairsOf(o, cols) == {i \in 1..Len(o.callables) : o.callables[i].columns = cols}

ProducerOf(o, cols) == o.callables[CHOOSE i \in PairsOf(o, cols) : TRUE].fn

\* what C5 says of the returned list and of the canonical row, for a group
GroupCollapsed(o, cols) ==
    /\ Cardinality(PairsOf(o, cols)) = 1
    /\ Callable(ProducerOf(o, cols))
    /\ \A c \in Range(cols) :
          /\ Cardinality({i \in 1..Len(o.row) : o.row[i].key = Key(c)}) = 1
          /\ DictGet(o.row, Key(c)) = NOTHING
    /\ \A i \in 1..Len(o.row) : ~o.row[i].key.multi

\* invoking the group's producer gives exactly the group's columns, with the
\* values the row holds
ProducerYields(o, cols) ==
    LET r == Invoke(ProducerOf(o, cols))
    IN /\ r.ok
       /\ DictKeys(r.value) = {Key(c) : c \in Range(cols)}
       /\ Len(r.value) = Len(cols)
       /\ \A c \in Range(cols) : DictGet(r.value, Key(c)) = CellOf(o.row_in, c)

ProducerRaises(o, cols) ==
    LET r == Invoke(ProducerOf(o, cols))
    IN ~r.ok /\ r.exc = "IndexError"

BigGroups == {delayed[i].columns : i \in {j \in 1..Len(delayed) : Len(delayed[j].columns) >= 2}}

\* C5 as claimed: for k >= 2 columns sharing a delayed group, normalize of
\* any row returns one pair for the group, invoking its producer returns a
\* mapping of exactly the group's columns, and the canonical row holds one
\* entry per group column and no tuple key.
C5_Original ==
    \A cols \in BigGroups :
        (Matches /\ out[1].status = "ok") =>
            /\ GroupCollapsed(out[1], cols)
            /\ ProducerYields(out[1], cols)

\* C5 amended: as claimed whenever normalize returns, except that for a
\* sequence row too short to hold a column of the group the producer raises
\* IndexError when invoked instead of returning a mapping.
C5_GroupCollapses ==
    \A cols \in BigGroups :
        (Matches /\ out[1].status = "ok") =>
            /\ GroupCollapsed(out[1], cols)
            /\ IF \E c \in Range(cols) : TooShort(out[1].arg, c)
               THEN ProducerRaises(out[1], cols)
               ELSE ProducerYields(out[1], cols)

\* a group of two columns or more, normalized from a sequence row that is
\* too short for one of them
C5_Witness ==
    /\ Matches
    /\ out[1].status = "ok"
    /\ \E cols \in BigGroups :
          /\ \E c \in Range(cols) : TooShort(out[1].arg, c)
          /\ \E c \in Range(cols) : ~TooShort(out[1].arg, c)

\* the producers a mapping row supplies, in the order of the row
Supplied(row) ==
    IF row.shape = "dict"
    THEN LET deferred == SelectSeq(row.items, LAMBDA e : e.value.tag \in {"fn", "tuple"})
         IN [i \in 1..Len(deferred) |->
                [columns |-> deferred[i].key.cols,
                 fn |-> IF deferred[i].value.tag = "tuple"
                        THEN deferred[i].value.fn
                        ELSE deferred[i].value]]
    ELSE <<>>

\* C6: normalize invokes no producer; the returned list holds exactly the
\* producers the mapping row supplied followed by one uncalled producer per
\* delayed group (a placeholder substituted for an absent column adds none),
\* and no producer stays in the canonical row.
C6_NeverInvokes ==
    Called =>
        /\ out[1].invoked = <<>>
        /\ out[1].status = "ok" =>
              /\ Len(out[1].callables) = Len(Supplied(out[1].arg)) + Len(delayed)
              /\ SubSeq(out[1].callables, 1, Len(Supplied(out[1].arg))) = Supplied(out[1].arg)
              /\ \A i \in 1..Len(delayed) :
                    LET p == out[1].callables[Len(Supplied(out[1].arg)) + i]
                    IN /\ p.columns = delayed[i].columns
                       /\ Callable(p.fn)
                       /\ p.fn.body.kind = "delay"
              /\ \A i \in 1..Len(out[1].row) : out[1].row[i].value.tag \in {"val", "nothing"}

\* a mapping row with a bare producer, an (initial, producer) pair and an
\* absent plain column, under a style with a delayed column
C6_Witness ==
    /\ Called
    /\ out[1].status = "ok"
    /\ out[1].arg.shape = "dict"
    /\ \E i \in 1..Len(out[1].arg.items) : out[1].arg.items[i].value.tag = "fn"
    /\ \E i \in 1..Len(out[1].arg.items) : out[1].arg.items[i].value.tag = "tuple"
    /\ \E c \in Range(columns) \ delayed_columns :
          /\ ~DictHas(out[1].arg.items, Key(c))
          /\ DictGet(out[1].row, Key(c)).tag = "nothing"
    /\ delayed # <<>>

\* the group of a delayed column
GroupColumns(c) ==
    delayed[CHOOSE i \in 1..Len(delayed) : c \in Range(delayed[i].columns)].columns

\* the value of column c reads as its placeholder: in the canonical row, or
\* for a delayed column in what its producer returns
ReadsAsPlaceholder(o, c) ==
    IF c \in delayed_columns
    THEN LET r == Invoke(ProducerOf(o, GroupColumns(c)))
         IN r.ok /\ DictGet(r.value, Key(c)) = nothings[c]
    ELSE DictGet(o.row, Key(c)) = nothings[c]

LookupErrors == {"IndexError", "KeyError"}

\* a mapping or attribute row that lacks column c
Lacks(row, c) == row.shape \in {"dict", "attrs"} /\ ~DictHas(row.items, Key(c))

\* C7 as claimed: for any column, delayed or not, a sequence row too short
\* for it makes normalize raise a lookup error, and a mapping or attribute
\* row without it never raises and the value reads as the placeholder.
C7_Original ==
    \A c \in Range(columns) :
        Matches =>
            /\ TooShort(out[1].arg, c) =>
                  out[1].status = "raised" /\ out[1].exc \in LookupErrors
            /\ Lacks(out[1].arg, c) =>
                  out[1].status = "ok" /\ ReadsAsPlaceholder(out[1], c)

\* C7 amended: a too short sequence row makes normalize raise IndexError for
\* a column that is not delayed; when only delayed columns are out of reach
\* normalize returns and the group's producer raises IndexError when it is
\* invoked.  Mapping and attribute rows are as claimed.
C7_MissingColumn ==
    \A c \in Range(columns) :
        Matches =>
            /\ (TooShort(out[1].arg, c) /\ c \notin delayed_columns) =>
                  out[1].status = "raised" /\ out[1].exc = "IndexError"
            /\ (TooShort(out[1].arg, c) /\ c \in delayed_columns
                  /\ \A d \in Range(columns) \ delayed_columns : ~TooShort(out[1].arg, d)) =>
                  /\ out[1].status = "ok"
                  /\ ProducerRaises(out[1], GroupColumns(c))
            /\ Lacks(out[1].arg, c) =>
                  out[1].status = "ok" /\ ReadsAsPlaceholder(out[1], c)

\* a too short sequence row that raised, under a style in which another
\* column is delayed
C7_Witness ==
    /\ Matches
    /\ out[1].status = "raised"
    /\ out[1].exc = "IndexError"
    /\ \E c \in Range(columns) \ delayed_columns : TooShort(out[1].arg, c)
    /\ delayed # <<>>

\* the auto-width and the fixed-width columns of the built fields
AutoColumns == DOMAIN autowidth_columns
FixedColumns == DOMAIN fields \ DOMAIN autowidth_columns

\* the cell the last render call was given for a column
Given(c) == DictGet(rendered.row, Key(c))

\* C2: across render calls, with or without a style argument, the width of
\* an auto-width column after a call is at least its width before the call,
\* and render never changes the width of a fixed-width column.
C2_WidthMonotone ==
    rendered # NoCall =>
        /\ \A c \in AutoColumns : fields[c].width >= rendered.before[c]
        /\ \A c \in FixedColumns :
              /\ fields[c].width = rendered.before[c]
              /\ fields[c].width = style[c].width.fixed

\* a render with a style argument of a value shorter than the width the
\* column had already grown to
C2_Witness ==
    /\ rendered # NoCall
    /\ rendered.arg.has
    /\ \E c \in AutoColumns :
          /\ rendered.before[c] > style[c].width.min
          /\ Len(Str(Given(c))) < rendered.before[c]
    /\ FixedColumns # {}

\* C3 as claimed: the adjusted flag of a render call is true exactly when
\* some auto-width column is wider after the call than before it.
C3_Original ==
    rendered # NoCall =>
        (rendered.adjusted <=> \E c \in AutoColumns : fields[c].width > rendered.before[c])

\* C4 as claimed: an auto-width column with width.max = M (min <= M) never
\* has a width above M after a render call.
C4_Original ==
    \A c \in AutoColumns :
        (autowidth_columns[c].hasmax /\ style[c].width.min <= autowidth_columns[c].max) =>
            fields[c].width <= autowidth_columns[c].max

\* no column style sets bold, underline or color
NoAttributes(st) ==
    \A c \in DOMAIN st : ~st[c].bold.has /\ ~st[c].underline.has /\ ~st[c].color.has

FixedWidthOf(i) == style[columns[i]].width.fixed

RECURSIVE OffsetOf(_)
\* where the cell of column i starts in the line
OffsetOf(i) ==
    IF i = 1 THEN 0 ELSE OffsetOf(i - 1) + FixedWidthOf(i - 1) + Len(separator)

\* C9: with fixed integer widths and no attribute, every line render
\* returns is one cell of exactly width(c) characters per column, in column
\* order, joined by the separator and ended by one line terminator, and
\* adjusted is false.
C9_FixedCells ==
    (/\ rendered # NoCall
     /\ AutoColumns = {}
     /\ NoAttributes(style)
     /\ rendered.arg.has => NoAttributes(rendered.arg.style)) =>
        LET n == Len(columns)
            line == rendered.line
        IN /\ rendered.status = "ok"
           /\ ~rendered.adjusted
           /\ Len(line) = OffsetOf(n) + FixedWidthOf(n) + 1
           /\ line[Len(line)] = "\n"
           /\ \A i \in 1..n :
                 /\ Len(rendered.cells[i]) = FixedWidthOf(i)
                 /\ SubSeq(line, OffsetOf(i) + 1, OffsetOf(i) + FixedWidthOf(i))
                        = rendered.cells[i]
                 /\ \A k \in 1..FixedWidthOf(i) : rendered.cells[i][k] # "\n"
           /\ \A i \in 1..(n - 1) :
                 SubSeq(line, OffsetOf(i) + FixedWidthOf(i) + 1, OffsetOf(i + 1)) = separator

\* two fixed columns, one value longer and one shorter than its width,
\* rendered after the widths were set up
C9_Witness ==
    /\ rendered # NoCall
    /\ AutoColumns = {}
    /\ NoAttributes(style)
    /\ Len(columns) = 2
    /\ ~rendered.arg.has
    /\ \E c \in FixedColumns : Len(Str(Given(c))) > style[c].width.fixed
    /\ \E c \in FixedColumns : Len(Str(Given(c))) < style[c].width.fixed

\* a finished call of truncate(length, marker)
Truncated(kind) == call.status = "done" /\ call.proc = "truncate" /\ call.marker.kind = kind

\* C8: truncate(w) with the default marker returns s unchanged when
\* len(s) <= w; for len(s) > w it returns w characters, the first
\* max(w - 3, 0) of them those of s, and "..." cut to w when w <= 3 and s
\* is not all whitespace.  With marker=False the result for len(s) > w is
\* s[:w].
C8_Truncate ==
    LET s == call.arg
        w == call.length
        r == call.result
    IN /\ Truncated("True") =>
             /\ Len(s) <= w => r = s
             /\ Len(s) > w =>
                   /\ Len(r) = w
                   /\ UpTo(r, Max(w - 3, 0)) = UpTo(s, Max(w - 3, 0))
                   /\ (w <= 3 /\ StripNonEmpty(s)) => r = UpTo(DefaultMarker, w)
       /\ Truncated("False") =>
             /\ Len(s) <= w => r = s
             /\ Len(s) > w => r = UpTo(s, w)

\* a string cut to two characters, which the marker alone fills
C8_Witness ==
    /\ Truncated("True")
    /\ Len(call.arg) > call.length
    /\ call.length = 2
    /\ call.result = <<".", ".">>

\* the entry of the list C10 names: the first whose range holds v and whose
\* attribute is truthy
InRange(e, v) == (e.start.none \/ e.start.n <= v) /\ (e.end.none \/ v < e.end.n)

Winners(intervals, v) ==
    {i \in 1..Len(intervals) : InRange(intervals[i], v) /\ Truthy(intervals[i].style)}

\* C10 as claimed: the interval processor prepends the translated attribute
\* of the first entry, in list order, with start <= v < end (None is
\* unbounded, also when both are None) and a truthy attribute; without such
\* an entry the rendered string is returned unchanged.
C10_Original ==
    (call.status = "done" /\ call.proc = "by_interval_lookup") =>
        LET v == NumOf(call.value.text)
            ws == Winners(call.intervals, v)
            first == CHOOSE i \in ws : \A j \in ws : i <= j
        IN /\ call.result.ok
           /\ call.result.value =
                  IF ws = {} THEN call.arg
                  ELSE translate(IF call.key # None THEN call.key
                                 ELSE call.intervals[first].style) \o call.arg

\* the group of processors a render call with this style argument selects
SelectedKey(arg) == IF arg.has THEN "override" ELSE "default"

\* what the "core" list of column c makes of the formatted value: the list
\* is empty or one truncate
CoreText(c) ==
    LET formatted == Format(_build_format(fields[c].width, fields[c].align), Given(c))
        core == fields[c].processors.core
    IN IF core = <<>> THEN formatted ELSE truncate_fn(core[1], Given(c), formatted)

RECURSIVE GroupPrefix(_, _)
\* what a list of attribute processors, run in list order on the raw value,
\* puts in front of the result it is handed: the last one's text outermost
GroupPrefix(procs, value) ==
    IF procs = <<>> THEN <<>>
    ELSE GroupPrefix(Tail(procs), value) \o ApplyProc(Head(procs), value, <<>>).value

\* C11: every cell of a render is the formatted value run through all of
\* "core" and then through all of exactly one of "default" and "override",
\* in list order, each processor handed the raw value and the previous
\* result; render selects "override" exactly when a style argument is given.
C11_ProcessorOrder ==
    (rendered # NoCall /\ rendered.status = "ok") =>
        /\ rendered.group = SelectedKey(rendered.arg)
        /\ \A i \in 1..Len(columns) :
              LET c == columns[i]
              IN /\ Len(fields[c].processors.core) <= 1
                 /\ rendered.cells[i] =
                        GroupPrefix(fields[c].processors[SelectedKey(rendered.arg)], Given(c))
                            \o CoreText(c)

\* a render with a style argument of a column whose "core" cuts the value
\* and whose "default" and "override" lists would put different texts in
\* front of it
C11_Witness ==
    /\ rendered # NoCall
    /\ rendered.status = "ok"
    /\ rendered.arg.has
    /\ \E c \in DOMAIN fields :
          /\ fields[c].processors.core # <<>>
          /\ Len(Str(Given(c))) > fields[c].processors.core[1].length
          /\ Len(fields[c].processors.override) >= 2
          /\ GroupPrefix(fields[c].processors.default, Given(c)) # <<>>
          /\ GroupPrefix(fields[c].processors.override, Given(c))
                 # GroupPrefix(fields[c].processors.default, Given(c))

\* C12: the getter binding of a normalizer is unset before its first call,
\* the first call sets it by the shape of that call's row, and no later
\* call changes it, whatever the shape of the later rows.
C12_BoundOnce ==
    /\ method[1] = None
    /\ [][/\ method[1] # None => method'[1] = method[1]
          /\ (method[1] = None /\ out[1] = NoCall /\ out'[1] # NoCall) =>
                method'[1] = _choose_normalizer(out'[1].arg)
          /\ (method[1] = None /\ method'[1] # None) =>
                (out[1] = NoCall /\ out'[1] # NoCall)]_vars

\* a later call made with a row of another shape than the one the getter
\* was bound for
C12_Witness ==
    /\ Called
    /\ method[1] # None
    /\ _choose_normalizer(out[1].arg) # method[1]

\* the marker text of the finished truncate call
MarkerOf == truncate(call.length, call.marker).marker

\* a finished truncate call with a non-empty marker shorter than the length,
\* on a string longer than the length
MarkerFits ==
    /\ call.status = "done"
    /\ call.proc = "truncate"
    /\ MarkerOf # <<>>
    /\ Len(MarkerOf) < call.length
    /\ Len(call.arg) > call.length

\* s[length - len(marker) : length], the characters the marker would replace
Replaced == SubSeq(call.arg, call.length - Len(MarkerOf) + 1, call.length)

\* s[length - len(marker) :], everything the marker would stand for
CutTail == SubSeq(call.arg, call.length - Len(MarkerOf) + 1, Len(call.arg))

WithoutMarker == SubSeq(call.arg, 1, call.length)
WithMarker == SubSeq(call.arg, 1, call.length - Len(MarkerOf)) \o MarkerOf

\* C13 as claimed: the result is s[:length] without the marker when the
\* characters the marker would replace, s[length-len(marker) : length], are
\* all whitespace, and s[:length-len(marker)] followed by the marker otherwise.
C13_Original ==
    MarkerFits =>
        call.result = IF StripNonEmpty(Replaced) THEN WithMarker ELSE WithoutMarker

\* C13 amended: the marker is left out only when everything from position
\* length-len(marker) to the end of s is whitespace; a visible character
\* beyond position length also brings the marker.
C13_MarkerTail ==
    MarkerFits =>
        call.result = IF StripNonEmpty(CutTail) THEN WithMarker ELSE WithoutMarker

\* the replaced characters are blank, a visible character follows them, and
\* the marker is put
C13_Witness ==
    /\ MarkerFits
    /\ ~StripNonEmpty(Replaced)
    /\ StripNonEmpty(CutTail)
    /\ call.result = WithMarker
    /\ call.result # WithoutMarker

\* a mapping row gives column c a bare producer / an (initial, producer) pair
Bare(c) ==
    /\ out[1].arg.shape = "dict"
    /\ DictHas(out[1].arg.items, Key(c))
    /\ DictGet(out[1].arg.items, Key(c)).tag = "fn"

Paired(c) ==
    /\ out[1].arg.shape = "dict"
    /\ DictHas(out[1].arg.items, Key(c))
    /\ DictGet(out[1].arg.items, Key(c)).tag = "tuple"

\* the value the returned canonical row holds for column c
Stored(c) == DictGet(out[1].row, Key(c))

\* C14 as claimed: a column deferred without an initial value (a bare
\* producer, or a column of a delayed group) holds its own missing
\* placeholder in the canonical row; with an (initial, producer) pair it
\* holds initial.
C14_Original ==
    \A c \in Range(columns) :
        (Matches /\ out[1].status = "ok") =>
            /\ Paired(c) => Stored(c) = DictGet(out[1].arg.items, Key(c)).initial
            /\ (~Paired(c) /\ (Bare(c) \/ c \in delayed_columns)) => Stored(c) = nothings[c]

\* C14 amended: the column holds the shared empty placeholder Nothing(),
\* whatever its style sets as missing, when it belongs to a delayed group
\* (also when the row gives a pair for it) or when the row gives a bare
\* producer for it; a column that is not delayed holds initial when the row
\* gives an (initial, producer) pair.
C14_StoredInitial ==
    \A c \in Range(columns) :
        (Matches /\ out[1].status = "ok") =>
            /\ c \in delayed_columns => Stored(c) = Nothing(<<>>)
            /\ (c \notin delayed_columns /\ Bare(c)) => Stored(c) = Nothing(<<>>)
            /\ (c \notin delayed_columns /\ Paired(c)) =>
                  Stored(c) = DictGet(out[1].arg.items, Key(c)).initial

\* a bare producer for a column whose style sets missing, an (initial,
\* producer) pair for a plain column and one for a delayed column
C14_Witness ==
    /\ Matches
    /\ out[1].status = "ok"
    /\ \E c \in Range(columns) \ delayed_columns :
          /\ Bare(c)
          /\ nothings[c] # Nothing(<<>>)
          /\ Stored(c) = Nothing(<<>>)
    /\ \E c \in Range(columns) \ delayed_columns : Paired(c) /\ Stored(c) = Val(<<"i">>)
    /\ \E c \in delayed_columns : Paired(c)

\* the fields as build left them
Built == _setup_fields(columns, style).fields

\* fields that never received a style argument, at the widths the last
\* render call found
NeverOverridden == [c \in DOMAIN Built |-> [Built[c] EXCEPT !.width = rendered.before[c]]]

\* the text the last call's row and style argument give on such fields
CleanLine ==
    render(columns, NeverOverridden, autowidth_columns, separator,
           rendered.row, rendered.arg).line

\* C15: after any sequence of render calls with style arguments, a render
\* without one gives the text of fields that never received an override, a
\* render with style S applies core and only the processors derived from S,
\* and no render changes a Field's core or default processor list.
C15_OneShot ==
    /\ \A c \in DOMAIN fields :
          /\ fields[c].processors.core = Built[c].processors.core
          /\ fields[c].processors.default = Built[c].processors.default
    /\ (rendered # NoCall /\ rendered.status = "ok") =>
          /\ rendered.line = CleanLine
          /\ rendered.arg.has =>
                \A c \in DOMAIN fields :
                    fields[c].processors.override = post_from_style(rendered.arg.style[c])

\* a render without a style argument on fields that still hold the list of
\* an earlier style argument, which would put another text in front of the
\* value than the default list does
C15_Witness ==
    /\ rendered # NoCall
    /\ rendered.status = "ok"
    /\ ~rendered.arg.has
    /\ \E c \in DOMAIN fields :
          /\ fields[c].processors.override # <<>>
          /\ GroupPrefix(fields[c].processors.override, Given(c))
                 # GroupPrefix(fields[c].processors.default, Given(c))

====
